---------------------------- MODULE Spec2Model ----------------------------
(***************************************************************************)
(* Model of the adaptive study-scheduling engine (backend/engine):         *)
(* scheduler.py (generate_schedule and its helpers), with the parts of     *)
(* cognitive.py and energy.py that generate_schedule calls.                *)
(*                                                                         *)
(* Numbers.  Python floats are modelled as exact fixed-point integers:     *)
(*   mastery, weight, energy_match, cognitive_fit   in tenths              *)
(*   a topic score (product of four of them)        in 1/10000             *)
(*   a gain term (score * 0.1)                      in 1/100000            *)
(*   features, confidence, estimated_learning_gain  in hundredths          *)
(* Strings that the code parses or formats (time windows, slot times) are  *)
(* sequences of one-character strings; all other strings are atoms.        *)
(***************************************************************************)
EXTENDS Integers, Sequences, FiniteSets, TLC

VARIABLES
    catalog,   \* the module-level DEFAULT_TOPICS table, shared by all calls
    input,     \* input[p]: the arguments of call p of generate_schedule
    pc,        \* pc[p]: position of call p in generate_schedule
    frame,     \* frame[c]: the local variables of the call that owns cell c
    result,    \* result[p]: what call p returned or raised
    op_in,     \* arguments of a stand-alone engine operation
    op_out     \* the outcome of the last stand-alone engine operation

vars == <<catalog, input, pc, frame, result, op_in, op_out>>

(***************************************************************************)
(* Bounds.                                                                 *)
(***************************************************************************)
\* A call stops emitting once it holds this many slots (caps runs that the
\* code would continue for ever).
MaxSlots == 7

\* Fuel of the sequential reference run RunAlone.
MaxSteps == 40

\* Longest list of answer events given to the profiler.
MaxEvents == 21

\* the longest list of energy logs, and the largest window_days
MaxLogs == 3
MaxWindow == 4

Procs == {1, 2}

None == "None"

(***************************************************************************)
(* Python helpers.                                                         *)
(***************************************************************************)
\* dict.get(key, default)
Get(d, k, default) == IF k \in DOMAIN d THEN d[k] ELSE default

Min(a, b) == IF a <= b THEN a ELSE b

Max(a, b) == IF a >= b THEN a ELSE b

RECURSIVE SumSeq(_)
SumSeq(s) == IF s = <<>> THEN 0 ELSE Head(s) + SumSeq(Tail(s))

\* s[:n]
Take(s, n) == SubSeq(s, 1, Min(n, Len(s)))

\* round(num/den, 0) for den > 0: nearest integer, ties to the even one
RoundHalfEven(num, den) ==
    LET q == num \div den
        r == num % den
    IN  IF 2 * r < den THEN q
        ELSE IF 2 * r > den THEN q + 1
        ELSE IF q % 2 = 0 THEN q ELSE q + 1

Digits == <<"0", "1", "2", "3", "4", "5", "6", "7", "8", "9">>

IsDigit(c) == \E i \in 1..10 : Digits[i] = c

DigitVal(c) == (CHOOSE i \in 1..10 : Digits[i] = c) - 1

\* str.split(sep) for a one-character separator: the list of the maximal
\* sep-free pieces, empty pieces included
RECURSIVE SplitFrom(_, _, _, _)
SplitFrom(s, sep, i, cur) ==
    IF i > Len(s) THEN <<cur>>
    ELSE IF s[i] = sep THEN <<cur>> \o SplitFrom(s, sep, i + 1, <<>>)
    ELSE SplitFrom(s, sep, i + 1, Append(cur, s[i]))

Split(s, sep) == SplitFrom(s, sep, 1, <<>>)

RECURSIVE StripLeft(_)
StripLeft(s) == IF s # <<>> /\ Head(s) = " " THEN StripLeft(Tail(s)) ELSE s

RECURSIVE StripRight(_)
StripRight(s) ==
    IF s # <<>> /\ s[Len(s)] = " " THEN StripRight(SubSeq(s, 1, Len(s) - 1))
    ELSE s

RECURSIVE DigitsVal(_, _)
DigitsVal(s, acc) ==
    IF s = <<>> THEN acc ELSE DigitsVal(Tail(s), 10 * acc + DigitVal(Head(s)))

\* int(str): surrounding blanks are stripped, one sign is allowed, the rest
\* must be a non-empty run of decimal digits; anything else raises ValueError
PyInt(s) ==
    LET t == StripRight(StripLeft(s))
        signed == t # <<>> /\ Head(t) \in {"+", "-"}
        body == IF signed THEN Tail(t) ELSE t
    IN  IF body = <<>> \/ \E i \in 1..Len(body) : ~IsDigit(body[i])
        THEN [ok |-> FALSE, err |-> "ValueError"]
        ELSE [ok |-> TRUE,
              val |-> IF signed /\ Head(t) = "-" THEN 0 - DigitsVal(body, 0)
                      ELSE DigitsVal(body, 0)]

\* the decimal digits of n >= 0
RECURSIVE DecStr(_)
DecStr(n) ==
    IF n < 10 THEN <<Digits[n + 1]>>
    ELSE Append(DecStr(n \div 10), Digits[(n % 10) + 1])

\* f"{n:02d}": sign and digits, zero-padded to a width of two characters
Fmt02d(n) ==
    IF n < 0 THEN <<"-">> \o DecStr(0 - n)
    ELSE IF n < 10 THEN <<"0">> \o DecStr(n)
    ELSE DecStr(n)

(***************************************************************************)
(* Reference tables (scheduler.py, module level).                          *)
(***************************************************************************)
DEFAULT_TOPICS ==
    [Physics |->
        << [name |-> "Mechanics", weight |-> 10, difficulty |-> "medium"],
           [name |-> "Electromagnetism", weight |-> 12, difficulty |-> "hard"],
           [name |-> "Thermodynamics", weight |-> 9, difficulty |-> "medium"],
           [name |-> "Optics", weight |-> 8, difficulty |-> "easy"] >>,
     Math |->
        << [name |-> "Calculus", weight |-> 12, difficulty |-> "hard"],
           [name |-> "Algebra", weight |-> 10, difficulty |-> "medium"],
           [name |-> "Trigonometry", weight |-> 8, difficulty |-> "medium"],
           [name |-> "Statistics", weight |-> 7, difficulty |-> "easy"] >>,
     Chemistry |->
        << [name |-> "Organic Chemistry", weight |-> 11, difficulty |-> "hard"],
           [name |-> "Inorganic Chemistry", weight |-> 9,
            difficulty |-> "medium"],
           [name |-> "Physical Chemistry", weight |-> 10,
            difficulty |-> "hard"] >>]

METHODS_BY_PROFILE ==
    [struggling |-> <<"Concept Review", "Video Lecture", "Guided Practice">>,
     fast_careless |->
        <<"Slow Practice", "Reflection Journal", "Error Analysis">>,
     slow_accurate |->
        <<"Timed Drills", "Speed Practice", "Pattern Recognition">>,
     balanced |-> <<"Problem Practice", "Mixed Problems", "Active Recall">>]

INTENSITY_BY_DIFFICULTY ==
    [hard |-> "High", medium |-> "Medium", easy |-> "Low"]

\* a failed dictionary subscript d[k]
KeyError == [ok |-> FALSE, err |-> "KeyError"]

Ok(v) == [ok |-> TRUE, val |-> v]

(***************************************************************************)
(* cognitive.py                                                            *)
(***************************************************************************)
\* round(100 * sqrt(a / b)) for a >= 0, b > 0: the s with
\* (2s - 1)^2 <= 40000 a / b < (2s + 1)^2, found by bisection in lo..hi
RECURSIVE SqrtSearch(_, _, _)
SqrtSearch(q, lo, hi) ==
    IF lo = hi THEN lo
    ELSE LET mid == (lo + hi) \div 2
         IN  IF (2 * mid + 1) * (2 * mid + 1) > q
             THEN SqrtSearch(q, lo, mid)
             ELSE SqrtSearch(q, mid + 1, hi)

RoundSqrt100(a, b) == SqrtSearch((40000 * a) \div b, 0, 10000)

\* statistics.stdev of integer times, in hundredths
Stdev100(times) ==
    LET n == Len(times)
        sq == [i \in 1..n |-> times[i] * times[i]]
    IN  RoundSqrt100(n * SumSeq(sq) - SumSeq(times) * SumSeq(times),
                     n * (n - 1))

\* the five features, in hundredths.  A value that lies exactly halfway
\* between two hundredths is rounded to the even one, which is what round()
\* does when the float is that value exactly; for confidence_gap (a float
\* difference) such a tie is decided by the binary error instead, and the
\* event lists of the model have no tie for it.
extract_cognitive_features(events) ==
    IF events = <<>>
    THEN [avg_response_time |-> 0, accuracy_rate |-> 0, retry_pattern |-> 0,
          confidence_gap |-> 0, speed_consistency |-> 0]
    ELSE LET total == Len(events)
             times == [i \in 1..total |-> events[i].time_taken]
             correct_count ==
                 Cardinality({i \in 1..total : events[i].correct})
             retries ==
                 [i \in 1..total |-> Get(events[i], "retry_count", 0)]
             confidences == [i \in 1..total |-> events[i].confidence]
             gap5 == 5 * correct_count - SumSeq(confidences)
         IN  [avg_response_time |->
                  RoundHalfEven(100 * SumSeq(times), total),
              accuracy_rate |-> RoundHalfEven(100 * correct_count, total),
              retry_pattern |-> RoundHalfEven(100 * SumSeq(retries), total),
              confidence_gap |->
                  RoundHalfEven(100 * (IF gap5 < 0 THEN 0 - gap5 ELSE gap5),
                                5 * total),
              speed_consistency |->
                  IF Len(times) > 1 THEN Stdev100(times) ELSE 0]

\* the speed rule tried before the accuracy rule
ClassifyRuleSpeedFirst(features) ==
    LET accuracy == features.accuracy_rate
        avg_time == features.avg_response_time
    IN  IF avg_time < 1200 /\ accuracy < 75
        THEN [type |-> "fast_careless", base |-> 85]
        ELSE IF accuracy < 50 THEN [type |-> "struggling", base |-> 90]
        ELSE IF avg_time > 2000 /\ accuracy > 80
             THEN [type |-> "slow_accurate", base |-> 85]
        ELSE [type |-> "balanced", base |-> 80]

\* the base confidence of the matched rule is in hundredths
ClassifyRule(features) ==
    LET accuracy == features.accuracy_rate
        avg_time == features.avg_response_time
    IN  IF accuracy < 50 THEN [type |-> "struggling", base |-> 90]
        ELSE IF avg_time < 1200 /\ accuracy < 75
             THEN [type |-> "fast_careless", base |-> 85]
        ELSE IF avg_time > 2000 /\ accuracy > 80
             THEN [type |-> "slow_accurate", base |-> 85]
        ELSE [type |-> "balanced", base |-> 80]

\* ten samples still counted as few
AdjustConfidenceOffByOne(base, sample_size) ==
    IF sample_size <= 10 THEN base * 70
    ELSE IF sample_size < 20 THEN base * 85
    ELSE base * 100

\* no adjustment without samples
AdjustConfidenceSkipEmpty(base, sample_size) ==
    IF sample_size = 0 THEN base * 100
    ELSE IF sample_size < 10 THEN base * 70
    ELSE IF sample_size < 20 THEN base * 85
    ELSE base * 100

\* lines 93-97: the confidence after the sample-size adjustment, in 1/10000
AdjustConfidence(base, sample_size) ==
    IF sample_size < 10 THEN base * 70
    ELSE IF sample_size < 20 THEN base * 85
    ELSE base * 100

\* line 101: round(confidence, 2) of a product in 1/10000, in hundredths.
\* The double 0.9 * 0.85 lies above 0.765 and the double 0.85 * 0.7 below
\* 0.595, so these two decimal ties round up and down respectively.
RoundConfidence(product) ==
    IF product = 7650 THEN 77
    ELSE IF product = 5950 THEN 59
    ELSE RoundHalfEven(product, 100)

classify_cognitive_profile(events) ==
    LET features == extract_cognitive_features(events)
        rule == ClassifyRule(features)
        sample_size == Len(events)
    IN  [type |-> rule.type,
         confidence |-> RoundConfidence(AdjustConfidence(rule.base,
                                                         sample_size)),
         features |-> features]

get_intervention_recommendation(profile_type) ==
    LET interventions ==
            [struggling |->
                 "Concept review, simpler problems, spaced repetition",
             fast_careless |->
                 "Slow practice, reflection prompts, penalty for speed",
             slow_accurate |-> "Timed drills, pattern recognition training",
             balanced |-> "Standard practice, gradual difficulty increase"]
    IN  Ok(Get(interventions, profile_type, "Standard practice"))

(***************************************************************************)
(* energy.py                                                               *)
(***************************************************************************)
\* int(x) for x in tenths: the fraction is dropped, towards zero
TruncTenths(x10) == IF x10 >= 0 THEN x10 \div 10 ELSE 0 - ((0 - x10) \div 10)

\* the score without the clamp
calculate_energy_score_unclamped(sleep_hours, tiredness) ==
    TruncTenths(sleep_hours * 12 - tiredness * 100)

\* the score converted with round() instead of int()
calculate_energy_score_rounded(sleep_hours, tiredness) ==
    Max(0, Min(100, RoundHalfEven(sleep_hours * 12 - tiredness * 100, 10)))

\* lines 24-25; sleep_hours in tenths of an hour, the score in tenths
\* before int()
calculate_energy_score(sleep_hours, tiredness) ==
    LET score == sleep_hours * 12 - tiredness * 100
    IN  Max(0, Min(100, TruncTenths(score)))

\* 70 itself not yet high
get_energy_level_strict(energy_score) ==
    IF energy_score > 70 THEN "high"
    ELSE IF energy_score >= 40 THEN "medium"
    ELSE "low"

get_energy_level(energy_score) ==
    IF energy_score >= 70 THEN "high"
    ELSE IF energy_score >= 40 THEN "medium"
    ELSE "low"

get_recommended_activities(energy_level) ==
    LET recommendations ==
            [high |->
                 [recommended |->
                      <<"New concepts", "Hard problems", "Active recall">>,
                  avoid |-> <<"Passive reading", "Easy revision">>],
             medium |->
                 [recommended |->
                      <<"Practice problems", "Note-making", "Discussion">>,
                  avoid |-> <<"Extremely difficult topics">>],
             low |->
                 [recommended |->
                      <<"Revision", "Flashcards", "Light reading">>,
                  avoid |-> <<"Learning new material">>]]
    IN  Ok(Get(recommendations, energy_level, recommendations["medium"]))

\* lines 50-51, in hundredths; sleep_hours in tenths of an hour
calculate_fatigue_index(tiredness, sleep_hours) ==
    LET fatigue == tiredness * 60 + (70 - sleep_hours) * 4
    IN  Max(0, fatigue)

\* the timestamp of a log that has none (datetime.min)
MinTimestamp == 0

\* sorted(key=timestamp, reverse=True): newest first and stable
RECURSIVE InsertByTimestamp(_, _)
InsertByTimestamp(sorted, x) ==
    IF sorted = <<>> THEN <<x>>
    ELSE IF Get(Head(sorted), "timestamp", MinTimestamp)
                >= Get(x, "timestamp", MinTimestamp)
         THEN <<Head(sorted)>> \o InsertByTimestamp(Tail(sorted), x)
         ELSE <<x>> \o sorted

RECURSIVE SortByTimestamp(_)
SortByTimestamp(logs) ==
    IF logs = <<>> THEN <<>>
    ELSE InsertByTimestamp(SortByTimestamp(SubSeq(logs, 1, Len(logs) - 1)),
                           logs[Len(logs)])

\* s[:n], a negative n counting from the end
SliceTo(s, n) ==
    IF n >= 0 THEN Take(s, n) ELSE SubSeq(s, 1, Max(0, Len(s) + n))

\* the risk computed over all logs, whatever the window
calculate_burnout_risk_all_logs(energy_logs, window_days) ==
    IF energy_logs = <<>> THEN 50
    ELSE LET fatigue_scores ==
                 [i \in 1..Len(energy_logs) |->
                     calculate_fatigue_index(energy_logs[i].tiredness,
                                             energy_logs[i].sleep_hours)]
             n == Len(fatigue_scores)
         IN  IF n < 2 THEN 30
             ELSE Min(100, RoundHalfEven(SumSeq(fatigue_scores), 5 * n))

\* lines 65-96, in hundredths
calculate_burnout_risk(energy_logs, window_days) ==
    IF energy_logs = <<>> THEN 50
    ELSE LET sorted_logs == SortByTimestamp(energy_logs)
             recent_logs == SliceTo(sorted_logs, window_days)
             fatigue_scores ==
                 [i \in 1..Len(recent_logs) |->
                     calculate_fatigue_index(recent_logs[i].tiredness,
                                             recent_logs[i].sleep_hours)]
             n == Len(fatigue_scores)
         IN  IF n < 2 THEN 30
             ELSE Min(100, RoundHalfEven(SumSeq(fatigue_scores), 5 * n))

\* lines 131-142
get_energy_analysis(sleep_hours, tiredness) ==
    LET score == calculate_energy_score(sleep_hours, tiredness)
        level == get_energy_level(score)
        fatigue == calculate_fatigue_index(tiredness, sleep_hours)
        activities == get_recommended_activities(level).val
    IN  [energy_score |-> score,
         energy_level |-> level,
         fatigue_index |-> fatigue,
         recommended_activities |-> activities.recommended,
         avoid_activities |-> activities.avoid]

(***************************************************************************)
(* scheduler.py: pure helpers                                              *)
(***************************************************************************)
\* start and end hour of a window string, or the exception int() or the
\* subscript parts[1] raises
parse_time_slot(slot) ==
    LET parts == Split(slot, "-")
        start == PyInt(Split(parts[1], ":")[1])
    IN  IF ~start.ok THEN start
        ELSE IF Len(parts) < 2 THEN [ok |-> FALSE, err |-> "IndexError"]
        ELSE LET end == PyInt(Split(parts[2], ":")[1])
             IN  IF ~end.ok THEN end
                 ELSE [ok |-> TRUE, start |-> start.val, end |-> end.val]

\* the score of a topic in 1/10000; mastery in tenths
\* the gain taken from the mastery instead of from what is left to learn
calculate_topic_score_by_mastery(topic, mastery, energy_level, profile_type) ==
    LET difficulty == Get(topic, "difficulty", "medium")
        weight == Get(topic, "weight", 10)
        learning_gain == mastery * weight
        energy_match_map ==
            [high |-> [hard |-> 10, medium |-> 7, easy |-> 3],
             medium |-> [hard |-> 5, medium |-> 10, easy |-> 7],
             low |-> [hard |-> 2, medium |-> 5, easy |-> 10]]
        energy_match ==
            Get(Get(energy_match_map, energy_level, <<>>), difficulty, 5)
        cognitive_fit_map ==
            [struggling |-> [hard |-> 3, medium |-> 7, easy |-> 10],
             fast_careless |-> [hard |-> 7, medium |-> 10, easy |-> 5],
             slow_accurate |-> [hard |-> 10, medium |-> 8, easy |-> 5],
             balanced |-> [hard |-> 8, medium |-> 10, easy |-> 8]]
        cognitive_fit ==
            Get(Get(cognitive_fit_map, profile_type, <<>>), difficulty, 7)
    IN  Ok(learning_gain * energy_match * cognitive_fit)

calculate_topic_score(topic, mastery, energy_level, profile_type) ==
    LET difficulty == Get(topic, "difficulty", "medium")
        weight == Get(topic, "weight", 10)
        learning_gain == (10 - mastery) * weight
        energy_match_map ==
            [high |-> [hard |-> 10, medium |-> 7, easy |-> 3],
             medium |-> [hard |-> 5, medium |-> 10, easy |-> 7],
             low |-> [hard |-> 2, medium |-> 5, easy |-> 10]]
        energy_match ==
            Get(Get(energy_match_map, energy_level, <<>>), difficulty, 5)
        cognitive_fit_map ==
            [struggling |-> [hard |-> 3, medium |-> 7, easy |-> 10],
             fast_careless |-> [hard |-> 7, medium |-> 10, easy |-> 5],
             slow_accurate |-> [hard |-> 10, medium |-> 8, easy |-> 5],
             balanced |-> [hard |-> 8, medium |-> 10, easy |-> 8]]
        cognitive_fit ==
            Get(Get(cognitive_fit_map, profile_type, <<>>), difficulty, 7)
    IN  Ok(learning_gain * energy_match * cognitive_fit)

\* INTENSITY_BY_DIFFICULTY.get(difficulty, "Medium")
IntensityOf(difficulty) == Ok(Get(INTENSITY_BY_DIFFICULTY, difficulty, "Medium"))

\* the rationale text as its five pieces; energy_phrases is subscripted
\* without a default
generate_rationale(energy_level, topic, profile_type) ==
    LET energy_phrases ==
            [high |-> "Peak energy", medium |-> "Moderate energy",
             low |-> "Low energy"]
        mastery == Get(topic, "mastery", 3)
        strength == IF mastery < 4 THEN "weak topic"
                    ELSE IF mastery < 7 THEN "developing topic"
                    ELSE "strong topic"
        profile_context ==
            [struggling |-> "needs foundational review",
             fast_careless |-> "focus on accuracy",
             slow_accurate |-> "speed practice beneficial",
             balanced |-> "optimal learning conditions"]
    IN  IF energy_level \notin DOMAIN energy_phrases THEN KeyError
        ELSE Ok(<<energy_phrases[energy_level], " + ", strength, " - ",
                  Get(profile_context, profile_type, "")>>)

(***************************************************************************)
(* scheduler.py: generate_schedule, one operator per stretch of code.  A   *)
(* frame holds the locals of one call.                                     *)
(***************************************************************************)
\* the locals of a call that has not run its first statement
NoFrame ==
    [max_session |-> 0, min_break |-> 0,
     profile |-> None, profile_type |-> None, energy_level |-> None,
     available_topics |-> <<>>, study_slots |-> <<>>,
     total_study_time |-> 0, fatigue_accumulator |-> 0,
     last_topic |-> None, consecutive_same |-> 0,
     slot_index |-> 0, start_hour |-> 0, end_hour |-> 0, current_hour |-> 0,
     emitted |-> <<>>]

\* an unknown subject falling back to the Math topics
SubjectTopicsFallback(subject, db, mastery, energy_level, profile_type) ==
    LET key == IF subject \in DOMAIN db THEN subject ELSE "Math"
    IN  [i \in 1..Len(db[key]) |->
            LET topic == db[key][i]
                topic_mastery_val == Get(mastery, <<subject, topic.name>>, 3)
            IN  [name |-> topic.name, weight |-> topic.weight,
                 difficulty |-> topic.difficulty, subject |-> subject,
                 mastery |-> topic_mastery_val,
                 score |-> calculate_topic_score(topic, topic_mastery_val,
                               energy_level, profile_type).val]]

\* the scored copies of the catalog topics of one subject (none for a
\* subject that is not a catalog key)
SubjectTopics(subject, db, mastery, energy_level, profile_type) ==
    IF subject \in DOMAIN db
    THEN [i \in 1..Len(db[subject]) |->
            LET topic == db[subject][i]
                topic_key == <<subject, topic.name>>
                topic_mastery_val == Get(mastery, topic_key, 3)
            IN  [name |-> topic.name, weight |-> topic.weight,
                 difficulty |-> topic.difficulty, subject |-> subject,
                 mastery |-> topic_mastery_val,
                 score |-> calculate_topic_score(topic, topic_mastery_val,
                               energy_level, profile_type).val]]
    ELSE <<>>

RECURSIVE AvailableTopics(_, _, _, _, _)
AvailableTopics(user_subjects, db, mastery, energy_level, profile_type) ==
    IF user_subjects = <<>> THEN <<>>
    ELSE SubjectTopics(Head(user_subjects), db, mastery, energy_level,
                       profile_type)
         \o AvailableTopics(Tail(user_subjects), db, mastery, energy_level,
                            profile_type)

\* list.sort(key=score, reverse=True): descending and stable
RECURSIVE InsertByScore(_, _)
InsertByScore(sorted, x) ==
    IF sorted = <<>> THEN <<x>>
    ELSE IF Head(sorted).score >= x.score
         THEN <<Head(sorted)>> \o InsertByScore(Tail(sorted), x)
         ELSE <<x>> \o sorted

RECURSIVE SortByScore(_)
SortByScore(topics) ==
    IF topics = <<>> THEN <<>>
    ELSE InsertByScore(SortByScore(SubSeq(topics, 1, Len(topics) - 1)),
                       topics[Len(topics)])

\* lines 131-169: preferences, profile, energy level, scored and sorted
\* candidates, fresh accumulators
Prepare(inp, db) ==
    LET prefs == inp.preferences
        profile == classify_cognitive_profile(inp.cognitive_events)
        energy_level == get_energy_level(inp.energy_score)
    IN  [NoFrame EXCEPT
            !.max_session = Get(prefs, "max_session_duration", 60),
            !.min_break = Get(prefs, "min_break", 15),
            !.profile = profile,
            !.profile_type = profile.type,
            !.energy_level = energy_level,
            !.available_topics =
                SortByScore(AvailableTopics(inp.user_subjects, db,
                    inp.topic_mastery, energy_level, profile.type))]

\* lines 185-196: scan the candidates from the top; best is the index of
\* the topic taken (0 for None), consecutive_same the counter after the scan
RECURSIVE ScanTopics(_, _, _, _)
ScanTopics(topics, i, last_topic, consecutive_same) ==
    IF i > Len(topics)
    THEN [best |-> 0, consecutive_same |-> consecutive_same]
    ELSE IF topics[i].name = last_topic
         THEN IF consecutive_same + 1 > 2
              THEN ScanTopics(topics, i + 1, last_topic, consecutive_same + 1)
              ELSE [best |-> i, consecutive_same |-> consecutive_same + 1]
         ELSE [best |-> i, consecutive_same |-> 0]

\* the scan started with a fresh counter every time
FindBestTopicFreshCounter(f) ==
    ScanTopics(f.available_topics, 1, f.last_topic, 0)

FindBestTopic(f) ==
    ScanTopics(f.available_topics, 1, f.last_topic, f.consecutive_same)

\* lines 171-173: the for loop takes the next window string
NextWindowF(f, inp) ==
    LET w == parse_time_slot(inp.free_slots[f.slot_index + 1])
    IN  [f EXCEPT !.slot_index = f.slot_index + 1,
                  !.start_hour = w.start, !.end_hour = w.end,
                  !.current_hour = w.start]

\* the break always taken as one whole hour
InsertBreakOneHour(f) ==
    LET break_duration == f.min_break
    IN  [f EXCEPT !.current_hour = f.current_hour + 1,
                  !.fatigue_accumulator = 0]

\* lines 177-182: the break
InsertBreakF(f) ==
    LET break_duration == f.min_break
    IN  [f EXCEPT !.current_hour = f.current_hour + (break_duration \div 60),
                  !.fatigue_accumulator = 0]

\* lines 198-199: the scan left its counter behind, the window is abandoned
NoTopicF(f) ==
    [f EXCEPT !.consecutive_same = FindBestTopic(f).consecutive_same]

\* line 219
SlotTime(current_hour, slot_duration) ==
    Fmt02d(current_hour) \o <<":", "0", "0", "-">>
    \o Fmt02d(current_hour + (slot_duration \div 60)) \o <<":", "0", "0">>

\* line 206
\* the method list run through once, its last entry kept from then on
MethodForNoCycle(profile_type, k) ==
    LET methods == Get(METHODS_BY_PROFILE, profile_type, <<"Problem Practice">>)
    IN  methods[Min(k, Len(methods) - 1) + 1]

MethodFor(profile_type, k) ==
    LET methods == Get(METHODS_BY_PROFILE, profile_type, <<"Problem Practice">>)
    IN  methods[(k % Len(methods)) + 1]

\* the slot length without the cap at the end of the window
SlotDurationUnclamped(f) == f.max_session

\* line 202
SlotDuration(f) == Min(f.max_session, (f.end_hour - f.current_hour) * 60)

\* lines 214-216
RationaleFor(f) ==
    generate_rationale(f.energy_level,
        f.available_topics[FindBestTopic(f).best], f.profile_type)

\* lines 201-230: one slot is appended and the accumulators advance.
\* emitted records, per slot, the window being processed, the score of the
\* candidate taken and the duration added to the totals.
EmitSlotF(f) ==
    LET sel == FindBestTopic(f)
        best_topic == f.available_topics[sel.best]
        slot_duration == SlotDuration(f)
        rationale == RationaleFor(f)
    IN  [f EXCEPT
            !.consecutive_same = sel.consecutive_same,
            !.study_slots = Append(f.study_slots,
                [time |-> SlotTime(f.current_hour, slot_duration),
                 subject |-> best_topic.subject,
                 topic |-> best_topic.name,
                 method |-> MethodFor(f.profile_type, Len(f.study_slots)),
                 intensity |-> IntensityOf(best_topic.difficulty).val,
                 rationale |-> rationale.val]),
            !.total_study_time = f.total_study_time + slot_duration,
            !.fatigue_accumulator = f.fatigue_accumulator + slot_duration,
            !.last_topic = best_topic.name,
            !.current_hour = f.current_hour + (slot_duration \div 60),
            !.emitted = Append(f.emitted,
                [start_hour |-> f.start_hour, end_hour |-> f.end_hour,
                 score |-> best_topic.score,
                 slot_duration |-> slot_duration,
                 fatigue_before |-> f.fatigue_accumulator])]

\* line 234: slot.get("score", 0.1) * 0.1, in 1/100000
GainTerm(slot) == Get(slot, "score", 1000)

\* lines 233-236 and 241, in hundredths
EstimatedGain(study_slots) ==
    LET first5 == Take(study_slots, 5)
        estimated_gain ==
            IF study_slots # <<>>
            THEN SumSeq([i \in 1..Len(first5) |-> GainTerm(first5[i])])
            ELSE 0
    IN  RoundHalfEven(estimated_gain, 1000)

\* lines 238-246; the date field (today's date) is left out
Plan(f, inp) ==
    [total_study_time |-> f.total_study_time,
     estimated_learning_gain |-> EstimatedGain(f.study_slots),
     slots |-> f.study_slots,
     cognitive_profile |-> f.profile,
     energy_score |-> inp.energy_score,
     energy_level |-> f.energy_level]

(***************************************************************************)
(* The calls as processes.  Call p keeps its locals in frame[Cell(p)]:     *)
(* every local of generate_schedule lives in the call's own frame.         *)
(***************************************************************************)
\* a single module-level frame used by every call
CellShared(p) == 1

Cell(p) == p

Local(p) == frame[Cell(p)]

Goto(p, f, to) ==
    /\ frame' = [frame EXCEPT ![Cell(p)] = f]
    /\ pc' = [pc EXCEPT ![p] = to]
    /\ UNCHANGED <<catalog, input, result, op_in, op_out>>

Finish(p, to, res) ==
    /\ pc' = [pc EXCEPT ![p] = to]
    /\ result' = [result EXCEPT ![p] = res]
    /\ UNCHANGED <<catalog, input, frame, op_in, op_out>>

\* lines 131-169
Begin(p) ==
    /\ pc[p] = "start"
    /\ Goto(p, Prepare(input[p], catalog), "for")

HasNextWindow(f, inp) == f.slot_index < Len(inp.free_slots)

NextParse(f, inp) == parse_time_slot(inp.free_slots[f.slot_index + 1])

\* lines 171-173, the window string parses
NextWindow(p) ==
    /\ pc[p] = "for"
    /\ HasNextWindow(Local(p), input[p])
    /\ NextParse(Local(p), input[p]).ok
    /\ Goto(p, NextWindowF(Local(p), input[p]), "while")

\* line 172, parse_time_slot raises: the exception leaves generate_schedule
ParseFailure(p) ==
    /\ pc[p] = "for"
    /\ HasNextWindow(Local(p), input[p])
    /\ ~NextParse(Local(p), input[p]).ok
    /\ Finish(p, "error", [error |-> NextParse(Local(p), input[p]).err])

\* lines 232-246, after the last window
Return(p) ==
    /\ pc[p] = "for"
    /\ ~HasNextWindow(Local(p), input[p])
    /\ Finish(p, "done", Plan(Local(p), input[p]))

\* line 175, the while condition is false
WindowEnd(p) ==
    /\ pc[p] = "while"
    /\ ~(Local(p).current_hour < Local(p).end_hour)
    /\ Goto(p, Local(p), "for")

\* lines 177-182
InsertBreak(p) ==
    /\ pc[p] = "while"
    /\ Local(p).current_hour < Local(p).end_hour
    /\ Local(p).fatigue_accumulator >= 120
    /\ Goto(p, InsertBreakF(Local(p)), "while")

\* lines 185-199, no candidate was taken
NoEligibleTopic(p) ==
    /\ pc[p] = "while"
    /\ Local(p).current_hour < Local(p).end_hour
    /\ Local(p).fatigue_accumulator < 120
    /\ FindBestTopic(Local(p)).best = 0
    /\ Goto(p, NoTopicF(Local(p)), "for")

\* lines 185-230, a candidate was taken
EmitSlot(p) ==
    /\ pc[p] = "while"
    /\ Local(p).current_hour < Local(p).end_hour
    /\ Local(p).fatigue_accumulator < 120
    /\ FindBestTopic(Local(p)).best # 0
    /\ Len(Local(p).study_slots) < MaxSlots
    /\ IF RationaleFor(Local(p)).ok
       THEN Goto(p, EmitSlotF(Local(p)), "while")
       ELSE Finish(p, "error", [error |-> RationaleFor(Local(p)).err])

Next ==
    \E p \in Procs :
        \/ Begin(p)
        \/ NextWindow(p)
        \/ ParseFailure(p)
        \/ Return(p)
        \/ WindowEnd(p)
        \/ InsertBreak(p)
        \/ NoEligibleTopic(p)
        \/ EmitSlot(p)

\* generate_schedule run by a single caller from its first statement to its
\* return or exception (lines 131-246), cut off after fuel steps
RECURSIVE Run(_, _, _, _)
Run(at, f, inp, fuel) ==
    IF fuel = 0 THEN [pc |-> "running", result |-> None]
    ELSE IF at = "start"
    THEN Run("for", Prepare(inp, DEFAULT_TOPICS), inp, fuel - 1)
    ELSE IF at = "for"
    THEN IF ~HasNextWindow(f, inp)
         THEN [pc |-> "done", result |-> Plan(f, inp)]
         ELSE IF ~NextParse(f, inp).ok
         THEN [pc |-> "error", result |-> [error |-> NextParse(f, inp).err]]
         ELSE Run("while", NextWindowF(f, inp), inp, fuel - 1)
    ELSE IF ~(f.current_hour < f.end_hour) THEN Run("for", f, inp, fuel - 1)
    ELSE IF f.fatigue_accumulator >= 120
    THEN Run("while", InsertBreakF(f), inp, fuel - 1)
    ELSE IF FindBestTopic(f).best = 0
    THEN Run("for", NoTopicF(f), inp, fuel - 1)
    ELSE IF ~RationaleFor(f).ok
    THEN [pc |-> "error", result |-> [error |-> RationaleFor(f).err]]
    ELSE Run("while", EmitSlotF(f), inp, fuel - 1)

RunAlone(inp) == Run("start", NoFrame, inp, MaxSteps)

(***************************************************************************)
(* Inputs.                                                                 *)
(***************************************************************************)
W0911 == <<"0", "9", ":", "0", "0", "-", "1", "1", ":", "0", "0">>

W0912 == <<"0", "9", ":", "0", "0", "-", "1", "2", ":", "0", "0">>

W0913 == <<"0", "9", ":", "0", "0", "-", "1", "3", ":", "0", "0">>

W1415 == <<"1", "4", ":", "0", "0", "-", "1", "5", ":", "0", "0">>

W1830 == <<"1", "8", ":", "3", "0", "-", "2", "1", ":", "1", "5">>

\* "9-11", "09:00" and "xx:00-11:00"
WBare == <<"9", "-", "1", "1">>

WHalf == <<"0", "9", ":", "0", "0">>

WAlpha == <<"x", "x", ":", "0", "0", "-", "1", "1", ":", "0", "0">>

WindowLists ==
    { <<>>, <<W0911>>, <<W0912>>, <<W0913>>, <<W1830>>,
      <<W0911, W1415>>, <<W0913, W1415>>,
      <<WBare>>, <<W0911, WHalf>>, <<W0911, WAlpha>> }

SubjectLists ==
    { <<>>, <<"Math">>, <<"Physics", "Math">>, <<"Biology">>,
      <<"Math", "Math">> }

Ev(t, c) ==
    [time_taken |-> t, correct |-> c, confidence |-> 3, retry_count |-> 0]

\* one event list per profile type: struggling, fast_careless,
\* slow_accurate, balanced
EventLists ==
    { <<>>, <<Ev(5, TRUE), Ev(5, FALSE)>>, <<Ev(25, TRUE)>>, <<Ev(15, TRUE)>> }

EnergyScores == {80, 50, 20}

NoDict == [k \in {} |-> 0]

MasteryMaps == { NoDict, [k \in {<<"Math", "Algebra">>} |-> 9] }

PreferenceSets ==
    { NoDict,
      [max_session_duration |-> 30],
      [max_session_duration |-> 90, min_break |-> 15],
      [max_session_duration |-> 120, min_break |-> 60],
      [max_session_duration |-> 60, min_break |-> 120],
      [max_session_duration |-> 60, min_break |-> 0 - 15] }

Inputs ==
    [user_subjects : SubjectLists, free_slots : WindowLists,
     cognitive_events : EventLists, energy_score : EnergyScores,
     topic_mastery : MasteryMaps, preferences : PreferenceSets]

NoInput ==
    [user_subjects |-> <<>>, free_slots |-> <<>>, cognitive_events |-> <<>>,
     energy_score |-> 50, topic_mastery |-> NoDict, preferences |-> NoDict]

\* the inputs of the two concurrent callers
ConcInputs ==
    { [NoInput EXCEPT !.user_subjects = <<"Math">>,
                      !.free_slots = <<W0912>>, !.energy_score = 80],
      [NoInput EXCEPT !.user_subjects = <<"Physics", "Math">>,
                      !.free_slots = <<W0911, W1415>>,
                      !.cognitive_events = <<Ev(15, TRUE)>>,
                      !.preferences = [max_session_duration |-> 90,
                                       min_break |-> 15]],
      [NoInput EXCEPT !.user_subjects = <<"Biology">>,
                      !.free_slots = <<W0911>>],
      [NoInput EXCEPT !.user_subjects = <<"Math">>,
                      !.free_slots = <<W0911, WHalf>>,
                      !.energy_score = 20] }

\* no stand-alone operation has been called
NoOpInput ==
    [energy_level |-> "medium", profile_type |-> "balanced",
     difficulty |-> "medium", mastery |-> 3, weight |-> 10]

NoCall == [fn |-> "none", out |-> Ok(None)]

(***************************************************************************)
(* Specifications.                                                         *)
(***************************************************************************)
InitCommon ==
    /\ catalog = DEFAULT_TOPICS
    /\ frame = [c \in Procs |-> NoFrame]
    /\ result = [p \in Procs |-> None]
    /\ op_in = NoOpInput
    /\ op_out = NoCall

\* one caller
Init ==
    /\ InitCommon
    /\ \E inp \in Inputs : input = [p \in Procs |-> IF p = 1 THEN inp ELSE NoInput]
    /\ pc = [p \in Procs |-> IF p = 1 THEN "start" ELSE "idle"]

Spec == Init /\ [][Next]_vars

\* two callers at once
InitConc ==
    /\ InitCommon
    /\ input \in [Procs -> ConcInputs]
    /\ pc = [p \in Procs |-> "start"]

SpecConc == InitConc /\ [][Next]_vars

(***************************************************************************)
(* The engine's lookup operations called on their own, with strings        *)
(* inside and outside the closed sets.                                     *)
(***************************************************************************)
EnergyLevelStrings == {"high", "medium", "low", "exhausted"}

ProfileTypeStrings ==
    {"struggling", "fast_careless", "slow_accurate", "balanced", "unknown"}

DifficultyStrings == {"hard", "medium", "easy", "extreme"}

MasteryValues == {0, 3, 5, 9, 10}

\* topic weights, in tenths
WeightValues == {7, 10, 12}

OpInputs ==
    [energy_level : EnergyLevelStrings, profile_type : ProfileTypeStrings,
     difficulty : DifficultyStrings, mastery : MasteryValues,
     weight : WeightValues]

OpTopic(a) ==
    [name |-> "Topic", weight |-> a.weight, difficulty |-> a.difficulty,
     mastery |-> a.mastery]

Called(fn, out) ==
    /\ op_out' = [fn |-> fn, out |-> out]
    /\ UNCHANGED <<catalog, input, pc, frame, result, op_in>>

CallTopicScore ==
    Called("calculate_topic_score",
           calculate_topic_score(OpTopic(op_in), op_in.mastery,
                                 op_in.energy_level, op_in.profile_type))

CallRecommendedActivities ==
    Called("get_recommended_activities",
           get_recommended_activities(op_in.energy_level))

CallIntervention ==
    Called("get_intervention_recommendation",
           get_intervention_recommendation(op_in.profile_type))

CallIntensity == Called("intensity", IntensityOf(op_in.difficulty))

CallRationale ==
    Called("generate_rationale",
           generate_rationale(op_in.energy_level, OpTopic(op_in),
                              op_in.profile_type))

NextOps ==
    \/ CallTopicScore
    \/ CallRecommendedActivities
    \/ CallIntervention
    \/ CallIntensity
    \/ CallRationale

InitOps ==
    /\ catalog = DEFAULT_TOPICS
    /\ input = [p \in Procs |-> NoInput]
    /\ pc = [p \in Procs |-> "idle"]
    /\ frame = [c \in Procs |-> NoFrame]
    /\ result = [p \in Procs |-> None]
    /\ op_in \in OpInputs
    /\ op_out = NoCall

SpecOps == InitOps /\ [][NextOps]_vars

(***************************************************************************)
(* Vocabulary of the properties.                                           *)
(***************************************************************************)
\* exactly "HH:MM-HH:MM"
WellFormed(w) ==
    /\ Len(w) = 11
    /\ \A i \in {1, 2, 4, 5, 7, 8, 10, 11} : IsDigit(w[i])
    /\ w[3] = ":" /\ w[9] = ":" /\ w[6] = "-"

AllWellFormed(ws) == \A i \in 1..Len(ws) : WellFormed(ws[i])

\* hours of a well-formed window
WindowHours(w) ==
    Max(0, parse_time_slot(w).end - parse_time_slot(w).start)

TotalHours(ws) == SumSeq([i \in 1..Len(ws) |-> WindowHours(ws[i])])

\* minutes of the interval written in a slot's time string
TimeMinutes(slot) ==
    (parse_time_slot(slot.time).end - parse_time_slot(slot.time).start) * 60

NoCatalogSubject(subjects) ==
    \A i \in 1..Len(subjects) : subjects[i] \notin DOMAIN DEFAULT_TOPICS

Returned(p) == pc[p] = "done"

Running(p) == pc[p] \in {"for", "while", "done"}

NoTriple(slots) ==
    \A i \in 1..(Len(slots) - 2) :
        ~(slots[i].topic = slots[i + 1].topic
          /\ slots[i + 1].topic = slots[i + 2].topic)

(***************************************************************************)
(* Properties.                                                             *)
(***************************************************************************)
\* C1: in every returned plan no three consecutive entries of slots carry
\* the same topic name, counted over the whole slot sequence.
C1_NoThreeConsecutive ==
    \A p \in Procs : Returned(p) => NoTriple(result[p].slots)

\* C2: for well-formed windows and any preferences the number of slots a
\* call has emitted never exceeds the total number of hours of its windows
\* (and so the call comes to an end).
C2_SlotsBoundedByHours ==
    \A p \in Procs :
        AllWellFormed(input[p].free_slots) /\ Running(p)
            => Len(Local(p).study_slots) <= TotalHours(input[p].free_slots)

\* C3: total_study_time of a returned plan is the sum, over its slots, of
\* the minutes between the two hours written in the slot's time string.
C3_TotalIsSumOfSlotTimes ==
    \A p \in Procs :
        Returned(p) =>
            result[p].total_study_time =
                SumSeq([k \in 1..Len(result[p].slots) |->
                            TimeMinutes(result[p].slots[k])])

SlotInsideWindow(p, k) ==
    LET t == parse_time_slot(Local(p).study_slots[k].time)
        w == Local(p).emitted[k]
    IN  w.start_hour <= t.start /\ t.start <= t.end /\ t.end <= w.end_hour

\* C4 as stated: with a positive max_session_duration and any min_break,
\* every emitted slot lies inside the window it was emitted for.
C4_SlotInsideWindow ==
    \A p \in Procs :
        Running(p) /\ Local(p).max_session > 0 =>
            \A k \in 1..Len(Local(p).study_slots) : SlotInsideWindow(p, k)

\* C4 as amended: with a positive max_session_duration and a min_break that
\* is not negative, every emitted slot lies inside the window it was
\* emitted for.
C4_SlotInsideWindowBreakNonNeg ==
    \A p \in Procs :
        Running(p) /\ Local(p).max_session > 0 /\ Local(p).min_break >= 0 =>
            \A k \in 1..Len(Local(p).study_slots) : SlotInsideWindow(p, k)

\* a plan returned after a break of at least an hour, whose last slot was
\* cut to end with its window
C4_Witness ==
    /\ Returned(1)
    /\ Local(1).min_break >= 60
    /\ Len(result[1].slots) >= 2
    /\ LET n == Len(result[1].slots)
       IN  /\ Local(1).emitted[n].slot_duration < Local(1).max_session
           /\ parse_time_slot(result[1].slots[n].time).end
                  = Local(1).emitted[n].end_hour

\* C5: total_study_time of a returned plan is at most the minutes of the
\* supplied windows; the plan for Math, 09:00-11:00, energy 80, no events
\* has at least one slot, all of Math, and at most 120 minutes.
C5_TotalWithinWindows ==
    \A p \in Procs :
        Returned(p) /\ AllWellFormed(input[p].free_slots) =>
            /\ result[p].total_study_time
                   <= 60 * TotalHours(input[p].free_slots)
            /\ input[p] = [NoInput EXCEPT !.user_subjects = <<"Math">>,
                                          !.free_slots = <<W0911>>,
                                          !.energy_score = 80]
               => /\ Len(result[p].slots) >= 1
                  /\ \A k \in 1..Len(result[p].slots) :
                         result[p].slots[k].subject = "Math"

\* C6: a call that ran interleaved with another returns or raises exactly
\* what it does when run alone, and the shared catalog keeps its content.
C6_Reentrant ==
    /\ catalog = DEFAULT_TOPICS
    /\ \A p \in Procs :
           pc[p] \in {"done", "error"} =>
               RunAlone(input[p]) = [pc |-> pc[p], result |-> result[p]]

\* both calls have returned plans with slots, for different inputs
C6_Witness ==
    /\ Returned(1) /\ Returned(2)
    /\ input[1] # input[2]
    /\ result[1].slots # <<>> /\ result[2].slots # <<>>

\* C7: a window string that is not a well-formed "HH:MM-HH:MM" is never
\* taken as a window, and no plan is returned when one is in the list.
C7_MalformedRejected ==
    \A p \in Procs :
        /\ \A i \in 1..Local(p).slot_index : WellFormed(input[p].free_slots[i])
        /\ Returned(p) => AllWellFormed(input[p].free_slots)

\* C8: no lookup operation fails, whatever difficulty, energy-level or
\* profile-type string it is given.
C8_LookupsNeverFail == op_out.fn # "none" => op_out.out.ok

\* C9: with no requested subject in the catalog and well-formed windows, a
\* call raises nothing, emits nothing, and returns an empty slot sequence
\* with total_study_time 0 and estimated_learning_gain 0.
C9_EmptyCandidates ==
    \A p \in Procs :
        NoCatalogSubject(input[p].user_subjects)
        /\ AllWellFormed(input[p].free_slots) =>
            /\ pc[p] # "error"
            /\ Running(p) => Local(p).study_slots = <<>>
            /\ Returned(p) =>
                   /\ result[p].slots = <<>>
                   /\ result[p].total_study_time = 0
                   /\ result[p].estimated_learning_gain = 0

\* a plan returned for an unknown subject over two windows
C9_Witness ==
    /\ Returned(1)
    /\ input[1].user_subjects = <<"Biology">>
    /\ Len(input[1].free_slots) = 2
    /\ Local(1).slot_index = 2

\* C10: estimated_learning_gain is the sum of 0.1 times the score of the
\* topic each of the first five slots was assigned from, rounded to two
\* decimals, and 0 without slots.
C10_GainFromScores ==
    \A p \in Procs :
        Returned(p) =>
            result[p].estimated_learning_gain =
                LET first5 == Take(Local(p).emitted, 5)
                IN  RoundHalfEven(
                        SumSeq([k \in 1..Len(first5) |-> first5[k].score]),
                        1000)

(***************************************************************************)
(* The profiler called on its own (cognitive.py).                          *)
(***************************************************************************)
\* n events, the first k answered correctly; odd events took ta seconds and
\* even ones tb; a correct answer has confidence 5, a wrong one 4; every
\* third event was retried once
EvList(n, k, ta, tb) ==
    [i \in 1..n |->
        [time_taken |-> IF i % 2 = 1 THEN ta ELSE tb,
         correct |-> i <= k,
         confidence |-> IF i <= k THEN 5 ELSE 4,
         retry_count |-> IF i % 3 = 0 THEN 1 ELSE 0]]

TimePairs ==
    { <<5, 5>>, <<12, 12>>, <<11, 13>>, <<11, 12>>, <<15, 15>>, <<20, 20>>,
      <<20, 21>>, <<25, 25>>, <<10, 14>> }

CogInputs ==
    { [events |-> EvList(n, k, tp[1], tp[2])] :
          n \in 0..MaxEvents, k \in 0..MaxEvents, tp \in TimePairs }

CallExtractFeatures ==
    Called("extract_cognitive_features",
           Ok(extract_cognitive_features(op_in.events)))

CallClassify ==
    Called("classify_cognitive_profile",
           Ok(classify_cognitive_profile(op_in.events)))

NextCog == CallExtractFeatures \/ CallClassify

InitCog ==
    /\ catalog = DEFAULT_TOPICS
    /\ input = [p \in Procs |-> NoInput]
    /\ pc = [p \in Procs |-> "idle"]
    /\ frame = [c \in Procs |-> NoFrame]
    /\ result = [p \in Procs |-> None]
    /\ op_in \in CogInputs
    /\ op_out = NoCall

SpecCog == InitCog /\ [][NextCog]_vars

Classified == op_out.fn = "classify_cognitive_profile"

\* the base confidence the table gives a type, in hundredths
BaseOf(type) ==
    IF type = "struggling" THEN 90
    ELSE IF type \in {"fast_careless", "slow_accurate"} THEN 85
    ELSE 80

\* C11: the type is decided by the ordered table on the extracted features:
\* accuracy < 0.5 gives struggling whatever the response time; otherwise
\* time < 12 and accuracy < 0.75 gives fast_careless; otherwise time > 20
\* and accuracy > 0.8 gives slow_accurate; otherwise balanced.  With 20
\* events or more the confidence is the base confidence of the type.
C11_OrderedTable ==
    Classified =>
        LET prof == op_out.out.val
            acc == prof.features.accuracy_rate
            time == prof.features.avg_response_time
            fast == time < 1200 /\ acc < 75
            slow == time > 2000 /\ acc > 80
        IN  /\ prof.type \in
                   {"struggling", "fast_careless", "slow_accurate", "balanced"}
            /\ prof.type = "struggling" <=> acc < 50
            /\ prof.type = "fast_careless" <=> acc >= 50 /\ fast
            /\ prof.type = "slow_accurate" <=> acc >= 50 /\ ~fast /\ slow
            /\ prof.type = "balanced" <=> acc >= 50 /\ ~fast /\ ~slow
            /\ Len(op_in.events) >= 20 => prof.confidence = BaseOf(prof.type)

\* a fast learner with low accuracy, classified as struggling from 20 events
C11_Witness ==
    /\ Classified
    /\ Len(op_in.events) >= 20
    /\ op_out.out.val.features.avg_response_time < 1200
    /\ op_out.out.val.features.accuracy_rate < 50
    /\ op_out.out.val.features.accuracy_rate > 0
    /\ op_out.out.val.type = "struggling"

\* C12: the confidence is the hundredth nearest to base * 0.70 (fewer than
\* 10 events), base * 0.85 (10 to 19) or base (20 or more); ten correct
\* events of 25 seconds give slow_accurate with confidence 0.72.
C12_ConfidenceBySampleSize ==
    Classified =>
        LET prof == op_out.out.val
            n == Len(op_in.events)
            factor == IF n < 10 THEN 70 ELSE IF n <= 19 THEN 85 ELSE 100
            diff == 100 * prof.confidence - BaseOf(prof.type) * factor
        IN  /\ diff <= 50 /\ diff >= 0 - 50
            /\ op_in.events = EvList(10, 10, 25, 25)
               => prof.type = "slow_accurate" /\ prof.confidence = 72

C12_Witness ==
    /\ Classified
    /\ op_in.events = EvList(10, 10, 25, 25)
    /\ op_out.out.val.confidence = 72

\* C13: without events all five features are 0 and the profile is
\* struggling with confidence 0.63, returned and not raised.
C13_NoEvents ==
    op_in.events = <<>> =>
        /\ op_out.out.ok
        /\ op_out.fn = "extract_cognitive_features" =>
               op_out.out.val =
                   [avg_response_time |-> 0, accuracy_rate |-> 0,
                    retry_pattern |-> 0, confidence_gap |-> 0,
                    speed_consistency |-> 0]
        /\ Classified =>
               /\ op_out.out.val.type = "struggling"
               /\ op_out.out.val.confidence = 63
               /\ \A k \in DOMAIN op_out.out.val.features :
                      op_out.out.val.features[k] = 0

C13_Witness == op_in.events = <<>> /\ Classified

(***************************************************************************)
(* The energy model called on its own: energy.py                           *)
(***************************************************************************)
\* sleep in tenths of an hour, below 0 and above 12 hours included
SleepHours == -20 .. 140

\* the 1..5 scale and the values around it
TirednessValues == -1 .. 7

ScoreValues == -10 .. 110

Log1 == [timestamp |-> 1, tiredness |-> 5, sleep_hours |-> 40]
Log2 == [timestamp |-> 2, tiredness |-> 1, sleep_hours |-> 90]
Log3 == [timestamp |-> 3, tiredness |-> 3, sleep_hours |-> 60]
LogUndated == [tiredness |-> 5, sleep_hours |-> 0]

LogPool == {Log1, Log2, Log3, LogUndated}

LogLists == UNION { [1..n -> LogPool] : n \in 0..MaxLogs }

WindowDays == -1 .. MaxWindow

EnergyInputs ==
    { [kind |-> "sample", sleep_hours |-> s, tiredness |-> t] :
          s \in SleepHours, t \in TirednessValues }
    \cup { [kind |-> "score", energy_score |-> e] : e \in ScoreValues }
    \cup { [kind |-> "logs", energy_logs |-> l, window_days |-> w] :
               l \in LogLists, w \in WindowDays }

CallEnergyScore ==
    /\ op_in.kind = "sample"
    /\ Called("calculate_energy_score",
              Ok(calculate_energy_score(op_in.sleep_hours, op_in.tiredness)))

CallEnergyLevel ==
    /\ op_in.kind = "score"
    /\ Called("get_energy_level", Ok(get_energy_level(op_in.energy_score)))

CallFatigueIndex ==
    /\ op_in.kind = "sample"
    /\ Called("calculate_fatigue_index",
              Ok(calculate_fatigue_index(op_in.tiredness, op_in.sleep_hours)))

CallEnergyAnalysis ==
    /\ op_in.kind = "sample"
    /\ Called("get_energy_analysis",
              Ok(get_energy_analysis(op_in.sleep_hours, op_in.tiredness)))

CallBurnoutRisk ==
    /\ op_in.kind = "logs"
    /\ Called("calculate_burnout_risk",
              Ok(calculate_burnout_risk(op_in.energy_logs,
                                        op_in.window_days)))

NextEnergy ==
    \/ CallEnergyScore
    \/ CallEnergyLevel
    \/ CallFatigueIndex
    \/ CallEnergyAnalysis
    \/ CallBurnoutRisk

InitEnergy ==
    /\ catalog = DEFAULT_TOPICS
    /\ input = [p \in Procs |-> NoInput]
    /\ pc = [p \in Procs |-> "idle"]
    /\ frame = [c \in Procs |-> NoFrame]
    /\ result = [p \in Procs |-> None]
    /\ op_in \in EnergyInputs
    /\ op_out = NoCall

SpecEnergy == InitEnergy /\ [][NextEnergy]_vars

Scored == op_out.fn = "calculate_energy_score"

\* sleep_hours*12 - tiredness*10 of the call's arguments, in tenths
RawScoreTenths == op_in.sleep_hours * 12 - op_in.tiredness * 100

ClampTenths(x10) == Max(0, Min(1000, x10))

\* C14: calculate_energy_score returns normally, and its value is an
\* integer from 0 to 100, for arguments inside and outside the documented
\* ranges (negative sleep, more than 12 hours, tiredness below 1 or above 5).
C14_ScoreInRange ==
    Scored => /\ op_out.out.ok
              /\ op_out.out.val \in 0..100

C14_Witness ==
    /\ Scored
    /\ op_in.sleep_hours < 0
    /\ op_in.tiredness > 5
    /\ op_out.out.val = 0

\* C15 as stated: the score is the raw value clamped to 0..100 and then
\* rounded to the nearest integer.
C15_ClampThenRound ==
    Scored => op_out.out.val = RoundHalfEven(ClampTenths(RawScoreTenths), 10)

\* C15: the score is the raw value sleep_hours*12 - tiredness*10 clamped to
\* 0..100 with its fraction dropped (rounded down), not rounded to nearest.
C15_ClampThenTruncate ==
    Scored => op_out.out.val = ClampTenths(RawScoreTenths) \div 10

C15_Witness ==
    /\ Scored
    /\ RawScoreTenths > 0
    /\ RawScoreTenths < 1000
    /\ RawScoreTenths % 10 > 5
    /\ op_out.out.val = RawScoreTenths \div 10

\* the three level rules hold of a score and a level, exactly one applying
LevelMatches(score, level) ==
    /\ level \in {"high", "medium", "low"}
    /\ level = "high" <=> score >= 70
    /\ level = "medium" <=> (score >= 40 /\ score < 70)
    /\ level = "low" <=> score < 40

Analysed == op_out.fn = "get_energy_analysis"

\* C16: get_energy_level gives high from 70 up, medium from 40 to 69 and
\* low below 40; get_energy_analysis reports a level that matches the score
\* it reports, and 8h/2 gives 76 high, 6h/3 gives 42 medium, 5h/4 gives 20
\* low.
C16_LevelByThreshold ==
    /\ op_out.fn = "get_energy_level" =>
           LevelMatches(op_in.energy_score, op_out.out.val)
    /\ Analysed =>
           /\ LevelMatches(op_out.out.val.energy_score,
                           op_out.out.val.energy_level)
           /\ op_out.out.val.energy_score =
                  ClampTenths(RawScoreTenths) \div 10
           /\ (op_in.sleep_hours = 80 /\ op_in.tiredness = 2) =>
                  /\ op_out.out.val.energy_score = 76
                  /\ op_out.out.val.energy_level = "high"
           /\ (op_in.sleep_hours = 60 /\ op_in.tiredness = 3) =>
                  /\ op_out.out.val.energy_score = 42
                  /\ op_out.out.val.energy_level = "medium"
           /\ (op_in.sleep_hours = 50 /\ op_in.tiredness = 4) =>
                  /\ op_out.out.val.energy_score = 20
                  /\ op_out.out.val.energy_level = "low"

C16_Witness ==
    /\ Analysed
    /\ op_in.sleep_hours = 75
    /\ op_in.tiredness = 2
    /\ op_out.out.val.energy_score = 70
    /\ op_out.out.val.energy_level = "high"

BurnoutCalled == op_out.fn = "calculate_burnout_risk"

\* S: the up-to-window most recent samples of the call's list
MostRecent == Take(SortByTimestamp(op_in.energy_logs), op_in.window_days)

\* min(1.0, mean fatigue index / 5.0) to two decimals, in hundredths
MeanRisk(S) ==
    LET total == SumSeq([i \in 1..Len(S) |->
                     Max(0, S[i].tiredness * 60 + (70 - S[i].sleep_hours) * 4)])
    IN  Min(100, RoundHalfEven(total, 5 * Len(S)))

\* C17 as stated: 0.5 when S is empty, 0.3 when S has one sample, the
\* capped mean otherwise, for every window size from 0 up.
C17_ByWindowedSamples ==
    (BurnoutCalled /\ op_in.window_days >= 0) =>
        /\ op_out.out.val \in 0..100
        /\ op_out.out.val =
               IF MostRecent = <<>> THEN 50
               ELSE IF Len(MostRecent) = 1 THEN 30
               ELSE MeanRisk(MostRecent)

\* C17: 0.5 when the sample list itself is empty; 0.3 when the list is not
\* empty and S has fewer than two samples (window 0 included); the capped
\* mean of S otherwise; always within 0..1.
C17_ByListThenWindow ==
    (BurnoutCalled /\ op_in.window_days >= 0) =>
        /\ op_out.out.val \in 0..100
        /\ op_out.out.val =
               IF op_in.energy_logs = <<>> THEN 50
               ELSE IF Len(MostRecent) < 2 THEN 30
               ELSE MeanRisk(MostRecent)

C17_Witness ==
    /\ BurnoutCalled
    /\ op_in.window_days = 0
    /\ op_in.energy_logs # <<>>
    /\ op_out.out.val = 30

TopicScored == op_out.fn = "calculate_topic_score"

\* position of a difficulty in the rows of the two multiplier tables
DifficultyColumn(difficulty) ==
    CASE difficulty = "hard" -> 1
      [] difficulty = "medium" -> 2
      [] difficulty = "easy" -> 3

\* the tabulated multipliers, in tenths, 0.5 for a level that has no row
EnergyMatchOf(energy_level, difficulty) ==
    LET rows == [high |-> <<10, 7, 3>>,
                 medium |-> <<5, 10, 7>>,
                 low |-> <<2, 5, 10>>]
    IN  IF energy_level \in DOMAIN rows
        THEN rows[energy_level][DifficultyColumn(difficulty)]
        ELSE 5

\* 0.7 for a profile type that has no row
CognitiveFitOf(profile_type, difficulty) ==
    LET rows == [struggling |-> <<3, 7, 10>>,
                 fast_careless |-> <<7, 10, 5>>,
                 slow_accurate |-> <<10, 8, 5>>,
                 balanced |-> <<8, 10, 8>>]
    IN  IF profile_type \in DOMAIN rows
        THEN rows[profile_type][DifficultyColumn(difficulty)]
        ELSE 7

\* C18: calculate_topic_score returns (1 - mastery) * weight * energy_match *
\* cognitive_fit with the tabulated multipliers, 0.5 and 0.7 standing in for
\* an unrecognized level and profile type, and the value is never negative
\* for a mastery from 0 to 1 and a positive weight.
C18_ScoreIsProduct ==
    TopicScored =>
        /\ op_out.out.ok
        /\ op_out.out.val >= 0
        /\ op_in.difficulty \in {"hard", "medium", "easy"} =>
               op_out.out.val =
                   (10 - op_in.mastery) * op_in.weight
                       * EnergyMatchOf(op_in.energy_level, op_in.difficulty)
                       * CognitiveFitOf(op_in.profile_type, op_in.difficulty)

C18_Witness ==
    /\ TopicScored
    /\ op_in.energy_level = "exhausted"
    /\ op_in.profile_type = "unknown"
    /\ op_in.difficulty = "hard"
    /\ op_in.mastery = 3
    /\ op_in.weight = 12
    /\ op_out.out.val = 7 * 12 * 5 * 7

\* call p takes a step
Stepped(p) ==
    \/ pc'[p] # pc[p]
    \/ Local(p)' # Local(p)
    \/ result'[p] # result[p]

\* call p is at the head of the while loop and the loop condition holds
InLoop(p) == pc[p] = "while" /\ Local(p).current_hour < Local(p).end_hour

\* C19: a loop step that finds the fatigue accumulator at 120 or more emits
\* no slot, sets the accumulator to 0 and moves the hour cursor on by
\* min_break integer-divided by 60; the slot list grows only, and by one, at
\* a step that found the accumulator below 120; entering a window and
\* leaving one leave the accumulator as it is.
C19_BreakStep ==
    [][\A p \in Procs :
          Stepped(p) =>
            /\ (InLoop(p) /\ Local(p).fatigue_accumulator >= 120) =>
                   /\ Local(p)'.study_slots = Local(p).study_slots
                   /\ Local(p)'.fatigue_accumulator = 0
                   /\ Local(p)'.current_hour =
                          Local(p).current_hour + (Local(p).min_break \div 60)
                   /\ pc'[p] = "while"
            /\ (pc[p] # "start"
                    /\ Local(p)'.study_slots # Local(p).study_slots) =>
                   /\ InLoop(p)
                   /\ Local(p).fatigue_accumulator < 120
                   /\ Len(Local(p)'.study_slots) = Len(Local(p).study_slots) + 1
            /\ ((pc[p] = "for" /\ pc'[p] = "while")
                    \/ (pc[p] = "while" /\ pc'[p] = "for")) =>
                   Local(p)'.fatigue_accumulator = Local(p).fatigue_accumulator
     ]_vars

\* a break has just been taken at the start of the second window, on the
\* fatigue of the slot emitted in the first
C19_Witness ==
    \E p \in Procs :
        /\ pc[p] = "while"
        /\ Local(p).slot_index = 2
        /\ Local(p).min_break = 60
        /\ Local(p).fatigue_accumulator = 0
        /\ Local(p).current_hour = Local(p).start_hour + 1
        /\ Len(Local(p).emitted) = 1
        /\ Local(p).emitted[1].slot_duration = 120
        /\ Local(p).emitted[1].start_hour # Local(p).start_hour

\* C20: the k-th slot of a call, k counted from 0 over the whole plan,
\* carries the method at position k mod 3 of its profile type's list in
\* METHODS_BY_PROFILE, in the slots emitted so far and in the returned plan.
C20_MethodsCycle ==
    \A p \in Procs :
        Running(p) =>
            /\ Local(p).profile_type \in DOMAIN METHODS_BY_PROFILE
            /\ \A k \in 1..Len(Local(p).study_slots) :
                   Local(p).study_slots[k].method =
                       METHODS_BY_PROFILE[Local(p).profile_type]
                           [((k - 1) % Len(METHODS_BY_PROFILE[
                                 Local(p).profile_type])) + 1]
            /\ Returned(p) => result[p].slots = Local(p).study_slots

\* a returned plan whose fourth slot is back at the first method and whose
\* second window opens on another method than the first
C20_Witness ==
    \E p \in Procs :
        /\ Returned(p)
        /\ Len(result[p].slots) >= 4
        /\ result[p].slots[4].method = result[p].slots[1].method
        /\ \E k \in 2..Len(result[p].slots) :
               /\ Local(p).emitted[k].start_hour
                      # Local(p).emitted[k - 1].start_hour
               /\ result[p].slots[k].method # result[p].slots[1].method

\* the names of the candidates, in ranking order
CandidateNames(p) ==
    [i \in 1..Len(Local(p).available_topics) |->
        Local(p).available_topics[i].name]

DistinctNames(p) == {CandidateNames(p)[i] : i \in DOMAIN CandidateNames(p)}

TopName(p) == CandidateNames(p)[1]

\* the highest-ranked name that is not the top-ranked one
SecondName(p) ==
    LET others == {i \in DOMAIN CandidateNames(p) :
                       CandidateNames(p)[i] # TopName(p)}
    IN  CandidateNames(p)[CHOOSE i \in others : \A j \in others : i <= j]

\* slot k, counted from 0, carries the name of the period-4 pattern
FollowsPattern(p, slots) ==
    \A k \in 0..(Len(slots) - 1) :
        slots[k + 1].topic = IF k % 4 = 3 THEN SecondName(p) ELSE TopName(p)

=============================================================================
